---- MODULE Spec2Model ----
(***************************************************************************)
(* A model of skills/release/scripts/release_validator.py: one run of      *)
(* main() -> validate_project() over a project directory, the version      *)
(* control state and the outcomes of the external tools it invokes.        *)
(*                                                                         *)
(* Optional[T] values of the source are sequences of length 0 (None) or 1. *)
(* Percentages are whole numbers (the python coverage pattern yields       *)
(* integers; fractional go percentages are outside the bounded inputs).    *)
(***************************************************************************)
EXTENDS Integers, Sequences, FiniteSets, TLC

VARIABLES
    fs,                \* the project directory: marker files and manifest contents
    git,               \* version control: a reachable tag, the name-status diff since it
    forced,            \* --type argument (Optional[ProjectType])
    default,           \* --coverage-threshold argument
    pc,                \* position of the run inside main / validate_project
    report,            \* the ValidationReport being assembled
    actual_threshold,  \* Optional: the resolved coverage threshold
    last,              \* the external commands issued by the latest step, in order
    raised,            \* the exception that ended the run, "none" otherwise
    exit_status        \* Optional: the status main exited with

vars == <<fs, git, forced, default, pc, report, actual_threshold, last, raised, exit_status>>

None == <<>>
Some(x) == <<x>>

----------------------------------------------------------------------------
(* Enumerations *)

ProjectType == {"claude-plugin", "python", "nodejs", "go", "rust", "generic"}

PASSED == "passed"
FAILED == "failed"
SKIPPED == "skipped"
WARNING == "warning"
ValidationResult == {PASSED, FAILED, SKIPPED, WARNING}

CheckResult(name, result, coverage) ==
    [name |-> name, result |-> result, coverage |-> coverage]

ValidationReport(project_type) ==
    [project_type |-> project_type,
     checks |-> <<>>,
     breaking_changes |-> <<>>,
     semver_recommendation |-> "patch"]

\* The report variable before validate_project has constructed one.
NoReport ==
    [project_type |-> "generic",
     checks |-> <<>>,
     breaking_changes |-> <<>>,
     semver_recommendation |-> "patch"]

Append1_prepend(r, c) == [r EXCEPT !.checks = <<c>> \o @]

Append1(r, c) == [r EXCEPT !.checks = Append(@, c)]

\* ValidationReport.passed: all(c.result in (PASSED, SKIPPED, WARNING) ...)
passed_blocking_warning(r) ==
    \A i \in 1..Len(r.checks) : r.checks[i].result \in {PASSED, SKIPPED}

passed(r) ==
    \A i \in 1..Len(r.checks) : r.checks[i].result \in {PASSED, SKIPPED, WARNING}

has_warnings(r) ==
    \E i \in 1..Len(r.checks) : r.checks[i].result = WARNING

----------------------------------------------------------------------------
(* run_command *)

\* What happens to the child process: it runs to an exit code, exceeds the
\* 300 second timeout, its executable is missing, or the OS refuses to start it
\* (an OSError other than FileNotFoundError, which run_command does not catch).
EnvEvents == {"ran", "timeout", "notfound", "denied"}
ExitCodes == {0, 1}

NoOutput == [cov |-> None, lines |-> <<>>]

Proc(event, code, stdout) == [event |-> event, code |-> code, stdout |-> stdout]

\* Every behaviour of a tool whose stdout is not parsed by the caller.
ToolProcs ==
    {Proc("ran", c, NoOutput) : c \in ExitCodes}
        \cup {Proc(e, 1, NoOutput) : e \in EnvEvents \ {"ran"}}

run_command(p) ==
    CASE p.event = "ran" ->
            [raised |-> "none", code |-> p.code, stdout |-> p.stdout, stderr |-> "stderr"]
      [] p.event = "timeout" ->
            [raised |-> "none", code |-> 1, stdout |-> NoOutput,
             stderr |-> "Command timed out after 300 seconds"]
      [] p.event = "notfound" ->
            [raised |-> "none", code |-> 1, stdout |-> NoOutput,
             stderr |-> "Command not found"]
      [] OTHER ->
            [raised |-> "PermissionError", code |-> 1, stdout |-> NoOutput, stderr |-> ""]

Ran(cmd, p, r) == [cmd |-> cmd, event |-> p.event, code |-> r.code]

----------------------------------------------------------------------------
(* detect_project_type *)

Markers ==
    {".claude-plugin/plugin.json", "plugin.json", "pyproject.toml", "setup.py",
     "package.json", "go.mod", "Cargo.toml", ".git"}

exists(f, name) == name \in f.markers

detect_project_type_node_first(f) ==
    IF exists(f, ".claude-plugin/plugin.json") THEN "claude-plugin"
    ELSE IF exists(f, "plugin.json") THEN "claude-plugin"
    ELSE IF exists(f, "package.json") THEN "nodejs"
    ELSE IF exists(f, "pyproject.toml") \/ exists(f, "setup.py") THEN "python"
    ELSE IF exists(f, "go.mod") THEN "go"
    ELSE IF exists(f, "Cargo.toml") THEN "rust"
    ELSE "generic"

detect_project_type(f) ==
    IF exists(f, ".claude-plugin/plugin.json") THEN "claude-plugin"
    ELSE IF exists(f, "plugin.json") THEN "claude-plugin"
    ELSE IF exists(f, "pyproject.toml") \/ exists(f, "setup.py") THEN "python"
    ELSE IF exists(f, "package.json") THEN "nodejs"
    ELSE IF exists(f, "go.mod") THEN "go"
    ELSE IF exists(f, "Cargo.toml") THEN "rust"
    ELSE IF exists(f, ".git") THEN "generic"
    ELSE "generic"

----------------------------------------------------------------------------
(* get_coverage_threshold *)

\* pyproject.toml: unreadable, or text in which the fail_under pattern
\* (an unsigned number) matches or not.
PyprojectAbsent == [kind |-> "absent", fail_under |-> None]

\* package.json: unreadable, not JSON, JSON that is no object, or an object
\* with its declared scripts and the value at jest.coverageThreshold.global.lines.
PackageAbsent == [kind |-> "absent", scripts |-> {}, lines |-> None]

\* float(v) of a JSON value: a number, a string holding a number, or a value
\* float() rejects (ValueError / TypeError).
Json(t, v) == [t |-> t, v |-> v]
float_ok(j) == j.t \in {"number", "numstr"}

\* The body of the try block: the value returned, or the exception raised in it.
threshold_try(f, project_type) ==
    IF project_type = "python" THEN
        IF exists(f, "pyproject.toml") THEN
            IF f.pyproject.kind = "unreadable" THEN [exc |-> "OSError", ret |-> None]
            ELSE IF f.pyproject.fail_under # None
                 THEN [exc |-> "none", ret |-> Some(f.pyproject.fail_under[1])]
                 ELSE [exc |-> "none", ret |-> None]
        ELSE [exc |-> "none", ret |-> None]
    ELSE IF project_type = "nodejs" THEN
        IF exists(f, "package.json") THEN
            IF f.package.kind = "unreadable" THEN [exc |-> "OSError", ret |-> None]
            ELSE IF f.package.kind = "malformed" THEN [exc |-> "JSONDecodeError", ret |-> None]
            ELSE IF f.package.kind = "nonobject" THEN [exc |-> "AttributeError", ret |-> None]
            ELSE IF f.package.lines # None THEN
                IF float_ok(f.package.lines[1])
                THEN [exc |-> "none", ret |-> Some(f.package.lines[1].v)]
                ELSE [exc |-> "ValueError", ret |-> None]
            ELSE [exc |-> "none", ret |-> None]
        ELSE [exc |-> "none", ret |-> None]
    ELSE [exc |-> "none", ret |-> None]

get_coverage_threshold_uncaught(f, project_type, dflt) ==
    LET t == threshold_try(f, project_type) IN
    IF t.exc # "none" THEN [raised |-> t.exc, value |-> dflt]
    ELSE IF t.ret # None THEN [raised |-> "none", value |-> t.ret[1]]
    ELSE [raised |-> "none", value |-> dflt]

\* except Exception: pass; return default
get_coverage_threshold(f, project_type, dflt) ==
    LET t == threshold_try(f, project_type) IN
    IF t.exc = "none" /\ t.ret # None
    THEN [raised |-> "none", value |-> t.ret[1]]
    ELSE [raised |-> "none", value |-> dflt]

----------------------------------------------------------------------------
(* The run: main() and validate_project() *)

Crash(exc) ==
    /\ raised' = exc
    /\ pc' = "exited"
    /\ exit_status' = Some(1)

\* main(), lines 713-720, then validate_project() up to the construction of
\* the report.
MainStart ==
    /\ pc = "main"
    /\ IF ~fs.path_exists
       THEN /\ pc' = "exited"
            /\ exit_status' = Some(1)
            /\ report' = report
       ELSE /\ pc' = "threshold"
            /\ exit_status' = exit_status
            /\ report' = ValidationReport(
                   IF forced = None THEN detect_project_type(fs) ELSE forced[1])
    /\ UNCHANGED <<fs, git, forced, default, actual_threshold, last, raised>>

GetCoverageThreshold ==
    /\ pc = "threshold"
    /\ LET r == get_coverage_threshold(fs, report.project_type, default) IN
       IF r.raised # "none"
       THEN /\ Crash(r.raised)
            /\ UNCHANGED actual_threshold
       ELSE /\ actual_threshold' = Some(r.value)
            /\ pc' = "changelog"
            /\ UNCHANGED <<raised, exit_status>>
    /\ UNCHANGED <<fs, git, forced, default, report, last>>

----------------------------------------------------------------------------
(* Strings inspected by content *)

\* The characters of every string the run inspects by content: the names of
\* the CheckResults it creates, and the status and path fields of diff lines.
Chars(s) ==
    CASE s = "plugin.json" -> <<"p", "l", "u", "g", "i", "n", ".", "j", "s", "o", "n">>
      [] s = "agents" -> <<"a", "g", "e", "n", "t", "s">>
      [] s = "skills" -> <<"s", "k", "i", "l", "l", "s">>
      [] s = "commands" -> <<"c", "o", "m", "m", "a", "n", "d", "s">>
      [] s = "tests+coverage" -> <<"t", "e", "s", "t", "s", "+", "c", "o", "v", "e", "r", "a", "g", "e">>
      [] s = "tests" -> <<"t", "e", "s", "t", "s">>
      [] s = "lint (ruff)" -> <<"l", "i", "n", "t", " ", "(", "r", "u", "f", "f", ")">>
      [] s = "lint (flake8)" -> <<"l", "i", "n", "t", " ", "(", "f", "l", "a", "k", "e", "8", ")">>
      [] s = "lint" -> <<"l", "i", "n", "t">>
      [] s = "typecheck (mypy)" -> <<"t", "y", "p", "e", "c", "h", "e", "c", "k", " ", "(", "m", "y", "p", "y", ")">>
      [] s = "typecheck" -> <<"t", "y", "p", "e", "c", "h", "e", "c", "k">>
      [] s = "security (bandit)" -> <<"s", "e", "c", "u", "r", "i", "t", "y", " ", "(", "b", "a", "n", "d", "i", "t", ")">>
      [] s = "security" -> <<"s", "e", "c", "u", "r", "i", "t", "y">>
      [] s = "dependencies (pip-audit)" -> <<"d", "e", "p", "e", "n", "d", "e", "n", "c", "i", "e", "s", " ", "(", "p", "i", "p", "-", "a", "u", "d", "i", "t", ")">>
      [] s = "dependencies" -> <<"d", "e", "p", "e", "n", "d", "e", "n", "c", "i", "e", "s">>
      [] s = "package.json" -> <<"p", "a", "c", "k", "a", "g", "e", ".", "j", "s", "o", "n">>
      [] s = "lint (eslint)" -> <<"l", "i", "n", "t", " ", "(", "e", "s", "l", "i", "n", "t", ")">>
      [] s = "security (npm audit)" -> <<"s", "e", "c", "u", "r", "i", "t", "y", " ", "(", "n", "p", "m", " ", "a", "u", "d", "i", "t", ")">>
      [] s = "lint (golangci-lint)" -> <<"l", "i", "n", "t", " ", "(", "g", "o", "l", "a", "n", "g", "c", "i", "-", "l", "i", "n", "t", ")">>
      [] s = "lint (clippy)" -> <<"l", "i", "n", "t", " ", "(", "c", "l", "i", "p", "p", "y", ")">>
      [] s = "vet" -> <<"v", "e", "t">>
      [] s = "security (cargo audit)" -> <<"s", "e", "c", "u", "r", "i", "t", "y", " ", "(", "c", "a", "r", "g", "o", " ", "a", "u", "d", "i", "t", ")">>
      [] s = "format" -> <<"f", "o", "r", "m", "a", "t">>
      [] s = "changelog" -> <<"c", "h", "a", "n", "g", "e", "l", "o", "g">>
      [] s = "breaking-changes" -> <<"b", "r", "e", "a", "k", "i", "n", "g", "-", "c", "h", "a", "n", "g", "e", "s">>
      [] s = "ci-config" -> <<"c", "i", "-", "c", "o", "n", "f", "i", "g">>
      [] s = "project-type" -> <<"p", "r", "o", "j", "e", "c", "t", "-", "t", "y", "p", "e">>
      [] s = "src/api.py" -> <<"s", "r", "c", "/", "a", "p", "i", ".", "p", "y">>
      [] s = "lib/api.py" -> <<"l", "i", "b", "/", "a", "p", "i", ".", "p", "y">>
      [] s = ".github/ci.yml" -> <<".", "g", "i", "t", "h", "u", "b", "/", "c", "i", ".", "y", "m", "l">>
      [] s = ".gitignore" -> <<".", "g", "i", "t", "i", "g", "n", "o", "r", "e">>
      [] s = "tests/test_api.py" -> <<"t", "e", "s", "t", "s", "/", "t", "e", "s", "t", "_", "a", "p", "i", ".", "p", "y">>
      [] s = "testing.md" -> <<"t", "e", "s", "t", "i", "n", "g", ".", "m", "d">>
      [] s = "unknown" -> <<"u", "n", "k", "n", "o", "w", "n">>
      [] s = "A" -> <<"A">>
      [] s = "M" -> <<"M">>
      [] s = "D" -> <<"D">>
      [] s = "R100" -> <<"R", "1", "0", "0">>
      [] s = "" -> <<>>

\* str.lower() on one character
lower_char(c) ==
    CASE c = "A" -> "a"
      [] c = "B" -> "b"
      [] c = "C" -> "c"
      [] c = "D" -> "d"
      [] c = "E" -> "e"
      [] c = "F" -> "f"
      [] c = "G" -> "g"
      [] c = "H" -> "h"
      [] c = "I" -> "i"
      [] c = "J" -> "j"
      [] c = "K" -> "k"
      [] c = "L" -> "l"
      [] c = "M" -> "m"
      [] c = "N" -> "n"
      [] c = "O" -> "o"
      [] c = "P" -> "p"
      [] c = "Q" -> "q"
      [] c = "R" -> "r"
      [] c = "S" -> "s"
      [] c = "T" -> "t"
      [] c = "U" -> "u"
      [] c = "V" -> "v"
      [] c = "W" -> "w"
      [] c = "X" -> "x"
      [] c = "Y" -> "y"
      [] c = "Z" -> "z"
      [] OTHER -> c

lower(cs) == [i \in 1..Len(cs) |-> lower_char(cs[i])]

\* str.startswith on character sequences
startswith(cs, prefix) ==
    /\ Len(prefix) <= Len(cs)
    /\ \A i \in 1..Len(prefix) : cs[i] = prefix[i]

\* the `in` operator on strings: prefix occurs somewhere in cs
contains(cs, sub) ==
    \E k \in 0..(Len(cs) - Len(sub)) :
        \A i \in 1..Len(sub) : cs[k + i] = sub[i]

----------------------------------------------------------------------------
(* validate_changelog *)

ChangelogStates == {"absent", "unreadable", "unreleased", "other"}

ValidateChangelog ==
    /\ pc = "changelog"
    /\ last' = <<>>
    /\ IF fs.changelog = "absent"
       THEN /\ report' = Append1(report, CheckResult("changelog", WARNING, None))
            /\ pc' = "breaking"
            /\ UNCHANGED <<raised, exit_status>>
       ELSE IF fs.changelog = "unreadable"
       THEN /\ Crash("OSError")
            /\ UNCHANGED report
       ELSE IF fs.changelog = "unreleased"
       THEN /\ report' = Append1(report, CheckResult("changelog", PASSED, None))
            /\ pc' = "breaking"
            /\ UNCHANGED <<raised, exit_status>>
       ELSE /\ report' = Append1(report, CheckResult("changelog", WARNING, None))
            /\ pc' = "breaking"
            /\ UNCHANGED <<raised, exit_status>>
    /\ UNCHANGED <<fs, git, forced, default, actual_threshold>>

----------------------------------------------------------------------------
(* detect_breaking_changes *)

\* One line of `git diff --name-status`, split at tabs: <<status, path>> or
\* <<status, old, new>>; <<"">> is the empty line of an empty diff.
EmptyLine == <<"">>

\* stdout.strip().split("\n")
split_lines(stdout) == IF stdout = <<>> THEN <<EmptyLine>> ELSE stdout

Deleted(p) == [kind |-> "DELETED", old |-> p, new |-> ""]
Renamed(old, new) == [kind |-> "RENAMED", old |-> old, new |-> new]

public(p) ==
    /\ ~startswith(Chars(p), <<".">>)
    /\ ~startswith(Chars(p), <<"t", "e", "s", "t">>)

\* The entries one diff line contributes (lines 500-514).
line_entries_hidden_kept(parts) ==
    IF parts = EmptyLine THEN <<>>
    ELSE IF startswith(Chars(parts[1]), <<"D">>) THEN
        IF ~startswith(Chars(parts[2]), <<"t", "e", "s", "t">>)
        THEN <<Deleted(parts[2])>> ELSE <<>>
    ELSE IF startswith(Chars(parts[1]), <<"R">>) THEN
        IF public(parts[2])
        THEN <<Renamed(parts[2], IF Len(parts) > 2 THEN parts[3] ELSE "unknown")>>
        ELSE <<>>
    ELSE <<>>

line_entries(parts) ==
    IF parts = EmptyLine THEN <<>>
    ELSE IF startswith(Chars(parts[1]), <<"D">>) THEN
        IF public(parts[2]) THEN <<Deleted(parts[2])>> ELSE <<>>
    ELSE IF startswith(Chars(parts[1]), <<"R">>) THEN
        IF public(parts[2])
        THEN <<Renamed(parts[2], IF Len(parts) > 2 THEN parts[3] ELSE "unknown")>>
        ELSE <<>>
    ELSE <<>>

\* The for loop of lines 498-514 over the lines of the diff.
RECURSIVE breaking_of(_)
breaking_of(lines) ==
    IF lines = <<>> THEN <<>>
    ELSE line_entries(Head(lines)) \o breaking_of(Tail(lines))

\* `git describe --tags --abbrev=0` exits 0 exactly when a tag is reachable.
DescribeProcs ==
    {Proc("ran", IF git.tag THEN 0 ELSE 1, NoOutput)}
        \cup {Proc(e, 1, NoOutput) : e \in EnvEvents \ {"ran"}}

\* `git diff --name-status <tag>..HEAD` prints the diff, or fails.
DiffProcs ==
    {Proc("ran", 0, [cov |-> None, lines |-> git.diff]), Proc("ran", 1, NoOutput)}
        \cup {Proc(e, 1, NoOutput) : e \in EnvEvents \ {"ran"}}

DetectBreakingChanges ==
    /\ pc = "breaking"
    /\ \E p1 \in DescribeProcs, p2 \in DiffProcs :
        LET r1 == run_command(p1)
            r2 == run_command(p2)
            breaking == breaking_of(split_lines(r2.stdout.lines))
        IN
        IF r1.raised # "none"
        THEN /\ Crash(r1.raised)
             /\ last' = <<Ran("git describe", p1, r1)>>
             /\ UNCHANGED report
        ELSE IF r1.code # 0
        THEN /\ report' = Append1(report, CheckResult("breaking-changes", SKIPPED, None))
             /\ last' = <<Ran("git describe", p1, r1)>>
             /\ pc' = "ci"
             /\ UNCHANGED <<raised, exit_status>>
        ELSE IF r2.raised # "none"
        THEN /\ Crash(r2.raised)
             /\ last' = <<Ran("git describe", p1, r1), Ran("git diff", p2, r2)>>
             /\ UNCHANGED report
        ELSE IF r2.code # 0
        THEN /\ last' = <<Ran("git describe", p1, r1), Ran("git diff", p2, r2)>>
             /\ pc' = "ci"
             /\ UNCHANGED <<report, raised, exit_status>>
        ELSE /\ last' = <<Ran("git describe", p1, r1), Ran("git diff", p2, r2)>>
             /\ pc' = "ci"
             /\ report' =
                  IF breaking # <<>>
                  THEN [Append1(report, CheckResult("breaking-changes", WARNING, None))
                            EXCEPT !.breaking_changes = breaking,
                                   !.semver_recommendation = "major"]
                  ELSE [Append1(report, CheckResult("breaking-changes", PASSED, None))
                            EXCEPT !.breaking_changes = breaking]
             /\ UNCHANGED <<raised, exit_status>>
    /\ UNCHANGED <<fs, git, forced, default, actual_threshold>>

----------------------------------------------------------------------------
(* check_ci_will_pass *)

ci_paths == <<".github/workflows", ".gitlab-ci.yml", "Jenkinsfile", ".circleci">>

CheckCiWillPass ==
    /\ pc = "ci"
    /\ last' = <<>>
    /\ LET ci_found == \E i \in 1..Len(ci_paths) : ci_paths[i] \in fs.ci IN
       report' = Append1(report,
                    CheckResult("ci-config", IF ci_found THEN PASSED ELSE WARNING, None))
    /\ pc' = report.project_type
    /\ UNCHANGED <<fs, git, forced, default, actual_threshold, raised, exit_status>>

----------------------------------------------------------------------------
(* Steps shared by the ecosystem pipelines *)

Step(cmds, r, next) ==
    /\ last' = cmds
    /\ report' = r
    /\ pc' = next
    /\ UNCHANGED <<raised, exit_status>>

Abort(cmds, exc) ==
    /\ last' = cmds
    /\ Crash(exc)
    /\ UNCHANGED report

\* One tool, one CheckResult: passed under ok_name when the command exits 0,
\* bad_result under bad_name otherwise (e.g. lines 263-271).
ToolStep(here, cmd, ok_name, bad_name, bad_result, next) ==
    /\ pc = here
    /\ \E p \in ToolProcs :
        LET r == run_command(p) IN
        IF r.raised # "none"
        THEN Abort(<<Ran(cmd, p, r)>>, r.raised)
        ELSE Step(<<Ran(cmd, p, r)>>,
                  Append1(report,
                      IF r.code = 0
                      THEN CheckResult(ok_name, PASSED, None)
                      ELSE CheckResult(bad_name, bad_result, None)),
                  next)
    /\ UNCHANGED <<fs, git, forced, default, actual_threshold>>

\* Coverage percentages a test run may print.
CoverageValues == {0, 90, 100}

\* A test command whose stdout may hold a coverage percentage.
TestProcs ==
    {Proc("ran", 0, [cov |-> c, lines |-> <<>>]) :
        c \in {None} \cup {Some(v) : v \in CoverageValues}}
        \cup {Proc("ran", 1, NoOutput)}
        \cup {Proc(e, 1, NoOutput) : e \in EnvEvents \ {"ran"}}

\* Truth value of an Optional[float] in `if coverage and ...`: None and 0.0 are false.
truthy(coverage) == coverage # None /\ coverage[1] # 0

----------------------------------------------------------------------------
(* validate_claude_plugin *)

PluginJsonStates == {"unreadable", "malformed", "missing_fields", "valid"}

PluginManifest ==
    /\ pc = "claude-plugin"
    /\ IF exists(fs, ".claude-plugin/plugin.json") \/ exists(fs, "plugin.json")
       THEN \E content \in PluginJsonStates :
              IF content = "unreadable"
              THEN Abort(<<>>, "OSError")
              ELSE Step(<<>>,
                        Append1(report,
                            CheckResult("plugin.json",
                                IF content = "valid" THEN PASSED ELSE FAILED, None)),
                        "plugin_agents")
       ELSE Step(<<>>, Append1(report, CheckResult("plugin.json", FAILED, None)),
                 "plugin_agents")
    /\ UNCHANGED <<fs, git, forced, default, actual_threshold>>

AgentSample == 10

Repeat(x, n) == [i \in 1..n |-> x]

\* The agents directory: absent, or the *.md files under it, each starting
\* with a frontmatter marker, not starting with one, or unreadable.
AgentDirs ==
    {None, Some(<<>>), Some(<<"frontmatter">>), Some(<<"plain">>), Some(<<"unreadable">>),
     Some(Repeat("plain", AgentSample) \o <<"frontmatter">>)}

sample(files) ==
    SubSeq(files, 1, IF Len(files) < AgentSample THEN Len(files) ELSE AgentSample)

PluginAgents ==
    /\ pc = "plugin_agents"
    /\ \E agents \in AgentDirs :
        IF agents = None THEN Step(<<>>, report, "plugin_skills")
        ELSE LET agent_files == agents[1]
                 sampled == sample(agent_files)
                 valid_agents ==
                     Cardinality({i \in 1..Len(sampled) : sampled[i] = "frontmatter"})
             IN
             IF \E i \in 1..Len(sampled) : sampled[i] = "unreadable"
             THEN Abort(<<>>, "OSError")
             ELSE IF agent_files # <<>>
             THEN Step(<<>>,
                       Append1(report,
                           CheckResult("agents",
                               IF valid_agents > 0 THEN PASSED ELSE WARNING, None)),
                       "plugin_skills")
             ELSE Step(<<>>, report, "plugin_skills")
    /\ UNCHANGED <<fs, git, forced, default, actual_threshold>>

\* The skills directory: absent, or the number of its subdirectories holding SKILL.md.
SkillDirs == {None, Some(0), Some(1)}

PluginSkills ==
    /\ pc = "plugin_skills"
    /\ \E skills \in SkillDirs :
        IF skills = None THEN Step(<<>>, report, "plugin_commands")
        ELSE Step(<<>>,
                  Append1(report,
                      CheckResult("skills", IF skills[1] > 0 THEN PASSED ELSE WARNING, None)),
                  "plugin_commands")
    /\ UNCHANGED <<fs, git, forced, default, actual_threshold>>

PluginCommands ==
    /\ pc = "plugin_commands"
    /\ \E commands_dir_exists \in BOOLEAN :
        IF commands_dir_exists
        THEN Step(<<>>, Append1(report, CheckResult("commands", PASSED, None)), "semver")
        ELSE Step(<<>>, report, "semver")
    /\ UNCHANGED <<fs, git, forced, default, actual_threshold>>

----------------------------------------------------------------------------
(* validate_python *)

\* lines 217-239
python_tests_check(r, coverage_threshold) ==
    IF r.code = 0 THEN
        LET coverage == r.stdout.cov IN
        IF truthy(coverage) /\ coverage[1] < coverage_threshold
        THEN CheckResult("tests+coverage", FAILED, coverage)
        ELSE CheckResult("tests+coverage", PASSED, coverage)
    ELSE CheckResult("tests", FAILED, None)

PythonTests ==
    /\ pc = "python"
    /\ \E pytest_ini \in BOOLEAN :
        LET has_pytest == pytest_ini \/ exists(fs, "pyproject.toml") IN
        IF has_pytest
        THEN \E p \in TestProcs :
                LET r == run_command(p) IN
                IF r.raised # "none"
                THEN Abort(<<Ran("pytest", p, r)>>, r.raised)
                ELSE Step(<<Ran("pytest", p, r)>>,
                          Append1(report, python_tests_check(r, actual_threshold[1])),
                          "python_lint")
        ELSE Step(<<>>, Append1(report, CheckResult("tests", SKIPPED, None)), "python_lint")
    /\ UNCHANGED <<fs, git, forced, default, actual_threshold>>

PythonLint ==
    /\ pc = "python_lint"
    /\ \E p \in ToolProcs, p2 \in ToolProcs :
        LET r == run_command(p)
            r2 == run_command(p2)
        IN
        IF r.raised # "none"
        THEN Abort(<<Ran("ruff", p, r)>>, r.raised)
        ELSE IF r.code = 0
        THEN Step(<<Ran("ruff", p, r)>>,
                  Append1(report, CheckResult("lint (ruff)", PASSED, None)),
                  "python_typecheck")
        ELSE IF r2.raised # "none"
        THEN Abort(<<Ran("ruff", p, r), Ran("flake8", p2, r2)>>, r2.raised)
        ELSE Step(<<Ran("ruff", p, r), Ran("flake8", p2, r2)>>,
                  Append1(report,
                      IF r2.code = 0
                      THEN CheckResult("lint (flake8)", PASSED, None)
                      ELSE CheckResult("lint", FAILED, None)),
                  "python_typecheck")
    /\ UNCHANGED <<fs, git, forced, default, actual_threshold>>

PythonTypecheck ==
    ToolStep("python_typecheck", "mypy", "typecheck (mypy)", "typecheck", WARNING,
             "python_security")

PythonSecurity ==
    ToolStep("python_security", "bandit", "security (bandit)", "security", WARNING,
             "python_dependencies")

PythonDependencies ==
    ToolStep("python_dependencies", "pip-audit", "dependencies (pip-audit)",
             "dependencies", WARNING, "semver")

----------------------------------------------------------------------------
(* validate_nodejs *)

NodeManifest ==
    /\ pc = "nodejs"
    /\ IF ~exists(fs, "package.json")
       THEN Step(<<>>, Append1(report, CheckResult("package.json", FAILED, None)), "semver")
       ELSE IF fs.package.kind = "unreadable" THEN Abort(<<>>, "OSError")
       ELSE IF fs.package.kind = "malformed" THEN Abort(<<>>, "JSONDecodeError")
       ELSE IF fs.package.kind = "nonobject" THEN Abort(<<>>, "AttributeError")
       ELSE Step(<<>>, report, "nodejs_tests")
    /\ UNCHANGED <<fs, git, forced, default, actual_threshold>>

NodeTests ==
    /\ pc = "nodejs_tests"
    /\ IF "test" \in fs.package.scripts
       THEN \E p \in ToolProcs :
               LET r == run_command(p) IN
               IF r.raised # "none"
               THEN Abort(<<Ran("npm test", p, r)>>, r.raised)
               ELSE Step(<<Ran("npm test", p, r)>>,
                         Append1(report,
                             CheckResult("tests", IF r.code = 0 THEN PASSED ELSE FAILED, None)),
                         "nodejs_lint")
       ELSE Step(<<>>, Append1(report, CheckResult("tests", SKIPPED, None)), "nodejs_lint")
    /\ UNCHANGED <<fs, git, forced, default, actual_threshold>>

NodeLint ==
    /\ pc = "nodejs_lint"
    /\ \E p \in ToolProcs :
        LET r == run_command(p)
            cmd == IF "lint" \in fs.package.scripts THEN "npm run lint" ELSE "npx eslint"
        IN
        IF r.raised # "none"
        THEN Abort(<<Ran(cmd, p, r)>>, r.raised)
        ELSE Step(<<Ran(cmd, p, r)>>,
                  Append1(report,
                      IF "lint" \in fs.package.scripts
                      THEN CheckResult("lint", IF r.code = 0 THEN PASSED ELSE FAILED, None)
                      ELSE IF r.code = 0
                           THEN CheckResult("lint (eslint)", PASSED, None)
                           ELSE CheckResult("lint", SKIPPED, None)),
                  "nodejs_audit")
    /\ UNCHANGED <<fs, git, forced, default, actual_threshold>>

NodeAudit ==
    ToolStep("nodejs_audit", "npm audit", "security (npm audit)", "security", WARNING,
             "semver")

----------------------------------------------------------------------------
(* validate_go *)

\* lines 358-380
go_tests_check(r, coverage_threshold) ==
    IF r.code = 0 THEN
        LET coverage == r.stdout.cov IN
        IF truthy(coverage) /\ coverage[1] < coverage_threshold
        THEN CheckResult("tests+coverage", FAILED, coverage)
        ELSE CheckResult("tests+coverage", PASSED, coverage)
    ELSE CheckResult("tests", FAILED, None)

GoTests ==
    /\ pc = "go"
    /\ \E p \in TestProcs :
        LET r == run_command(p) IN
        IF r.raised # "none"
        THEN Abort(<<Ran("go test", p, r)>>, r.raised)
        ELSE Step(<<Ran("go test", p, r)>>,
                  Append1(report, go_tests_check(r, actual_threshold[1])),
                  "go_lint")
    /\ UNCHANGED <<fs, git, forced, default, actual_threshold>>

GoLint ==
    ToolStep("go_lint", "golangci-lint", "lint (golangci-lint)", "lint", WARNING, "go_vet")

GoVet ==
    ToolStep("go_vet", "go vet", "vet", "vet", WARNING, "semver")

----------------------------------------------------------------------------
(* validate_rust *)

RustTests ==
    ToolStep("rust", "cargo test", "tests", "tests", FAILED, "rust_clippy")

RustClippy ==
    ToolStep("rust_clippy", "cargo clippy", "lint (clippy)", "lint", WARNING, "rust_audit")

RustAudit ==
    ToolStep("rust_audit", "cargo audit", "security (cargo audit)", "security", WARNING,
             "rust_format")

RustFormat_advisory ==
    ToolStep("rust_format", "cargo fmt", "format", "format", WARNING, "semver")

RustFormat ==
    ToolStep("rust_format", "cargo fmt", "format", "format", FAILED, "semver")

----------------------------------------------------------------------------
(* validate_project: the generic branch, the semver recommendation, return *)

ValidateGeneric_failed ==
    /\ pc = "generic"
    /\ last' = <<>>
    /\ report' = Append1(report, CheckResult("project-type", FAILED, None))
    /\ pc' = "semver"
    /\ UNCHANGED <<fs, git, forced, default, actual_threshold, raised, exit_status>>

ValidateGeneric ==
    /\ pc = "generic"
    /\ last' = <<>>
    /\ report' = Append1(report, CheckResult("project-type", WARNING, None))
    /\ pc' = "semver"
    /\ UNCHANGED <<fs, git, forced, default, actual_threshold, raised, exit_status>>

feat == <<"f", "e", "a", "t">>

semver_of_features_first(r) ==
    IF \E i \in 1..Len(r.checks) :
          r.checks[i].result = PASSED /\ contains(lower(Chars(r.checks[i].name)), feat)
    THEN "minor"
    ELSE IF r.breaking_changes # <<>> THEN "minor"
    ELSE "patch"

semver_of_minor_default(r) ==
    IF r.breaking_changes # <<>> THEN "major" ELSE "minor"

\* lines 606-611
semver_of(r) ==
    IF r.breaking_changes # <<>> THEN "major"
    ELSE IF \E i \in 1..Len(r.checks) :
               r.checks[i].result = PASSED /\ contains(lower(Chars(r.checks[i].name)), feat)
    THEN "minor"
    ELSE "patch"

DetermineSemver ==
    /\ pc = "semver"
    /\ report' = [report EXCEPT !.semver_recommendation = semver_of(report)]
    /\ pc' = "returned"
    /\ UNCHANGED <<fs, git, forced, default, actual_threshold, last, raised, exit_status>>

\* sys.exit(0 if report.passed else 1)
exit_code(r) == IF passed(r) THEN 0 ELSE 1

MainExit ==
    /\ pc = "returned"
    /\ exit_status' = Some(exit_code(report))
    /\ pc' = "exited"
    /\ UNCHANGED <<fs, git, forced, default, report, actual_threshold, last, raised>>

----------------------------------------------------------------------------
(* Inputs of a run *)

Pyproject(fail_under) == [kind |-> "text", fail_under |-> fail_under]
Package(scripts, lines) == [kind |-> "object", scripts |-> scripts, lines |-> lines]
BadFile(kind, absent) == [absent EXCEPT !.kind = kind]

\* A project directory. Contents of a manifest that does not exist are the
\* Absent records.
Dir(markers, pyproject, package, changelog, ci) ==
    [path_exists |-> TRUE,
     markers |-> markers,
     pyproject |-> IF "pyproject.toml" \in markers THEN pyproject ELSE PyprojectAbsent,
     package |-> IF "package.json" \in markers THEN package ELSE PackageAbsent,
     changelog |-> changelog,
     ci |-> ci]

NoSuchPath ==
    [path_exists |-> FALSE, markers |-> {}, pyproject |-> PyprojectAbsent,
     package |-> PackageAbsent, changelog |-> "absent", ci |-> {}]

Repo(tag, diff) == [tag |-> tag, diff |-> diff]
NoTags == Repo(FALSE, <<>>)

DefaultThreshold == 95

Input(f, g, t, d) == [fs |-> f, git |-> g, forced |-> t, default |-> d]

InitFrom(inputs) ==
    /\ \E i \in inputs :
        /\ fs = i.fs
        /\ git = i.git
        /\ forced = i.forced
        /\ default = i.default
    /\ pc = "main"
    /\ report = NoReport
    /\ actual_threshold = None
    /\ last = <<>>
    /\ raised = "none"
    /\ exit_status = None

----------------------------------------------------------------------------
(* Spec: whole runs over a set of representative projects *)

\* <<markers, pyproject, package>> of the projects explored by whole runs.
Projects ==
    {<<{".claude-plugin/plugin.json", ".git"}, PyprojectAbsent, PackageAbsent>>,
     <<{"pyproject.toml", ".git"}, Pyproject(Some(90)), PackageAbsent>>,
     <<{"setup.py"}, PyprojectAbsent, PackageAbsent>>,
     <<{"package.json"}, PyprojectAbsent, Package({"test", "lint"}, None)>>,
     <<{"package.json", ".git"}, PyprojectAbsent, Package({}, Some(Json("number", 80)))>>,
     <<{"package.json", "go.mod"}, PyprojectAbsent, BadFile("malformed", PackageAbsent)>>,
     <<{"go.mod", ".git"}, PyprojectAbsent, PackageAbsent>>,
     <<{"Cargo.toml", ".git"}, PyprojectAbsent, PackageAbsent>>,
     <<{".git"}, PyprojectAbsent, PackageAbsent>>,
     <<{}, PyprojectAbsent, PackageAbsent>>}

Repos ==
    {NoTags,
     Repo(TRUE, <<>>),
     Repo(TRUE, << <<"D", "src/api.py">>, <<"D", ".github/ci.yml">> >>)}

CiLayouts == {{}, {".github/workflows"}, {"Jenkinsfile", ".circleci"}}

\* Detected types for every project; every forced type on the empty directory.
MainInputs ==
    {Input(Dir(p[1], p[2], p[3], c, ci), g, None, DefaultThreshold) :
        p \in Projects, c \in ChangelogStates, ci \in CiLayouts, g \in Repos}
    \cup
    {Input(Dir({}, PyprojectAbsent, PackageAbsent, c, {}), g, Some(t), DefaultThreshold) :
        c \in {"absent", "unreleased"}, g \in Repos, t \in ProjectType}
    \cup
    {Input(NoSuchPath, NoTags, None, DefaultThreshold)}

Init == InitFrom(MainInputs)

Next ==
    \/ MainStart
    \/ GetCoverageThreshold
    \/ ValidateChangelog
    \/ DetectBreakingChanges
    \/ CheckCiWillPass
    \/ PluginManifest
    \/ PluginAgents
    \/ PluginSkills
    \/ PluginCommands
    \/ PythonTests
    \/ PythonLint
    \/ PythonTypecheck
    \/ PythonSecurity
    \/ PythonDependencies
    \/ NodeManifest
    \/ NodeTests
    \/ NodeLint
    \/ NodeAudit
    \/ GoTests
    \/ GoLint
    \/ GoVet
    \/ RustTests
    \/ RustClippy
    \/ RustAudit
    \/ RustFormat
    \/ ValidateGeneric
    \/ DetermineSemver
    \/ MainExit

Spec == Init /\ [][Next]_vars

----------------------------------------------------------------------------
(* SpecDetect: detect_project_type over every combination of marker files *)

DetectInputs ==
    {Input(Dir(m, Pyproject(None), Package({}, None), "absent", {}),
           NoTags, None, DefaultThreshold) : m \in SUBSET Markers}

InitDetect == InitFrom(DetectInputs)

NextDetect == MainStart

SpecDetect == InitDetect /\ [][NextDetect]_vars

----------------------------------------------------------------------------
(* SpecThreshold: get_coverage_threshold over configurations and defaults *)

PyprojectStates ==
    {BadFile("unreadable", PyprojectAbsent), Pyproject(None),
     Pyproject(Some(0)), Pyproject(Some(80)), Pyproject(Some(100))}

JestLines ==
    {None, Some(Json("number", 80)), Some(Json("number", 0)), Some(Json("number", -10)),
     Some(Json("numstr", 70)), Some(Json("text", 0)), Some(Json("null", 0))}

PackageStates ==
    {BadFile("unreadable", PackageAbsent), BadFile("malformed", PackageAbsent),
     BadFile("nonobject", PackageAbsent)}
        \cup {Package({"test"}, l) : l \in JestLines}

Defaults == {DefaultThreshold, 80}

ThresholdInputs ==
    {Input(Dir(m, py, pk, "absent", {}), NoTags, t, d) :
        m \in SUBSET {"pyproject.toml", "package.json"},
        py \in PyprojectStates, pk \in PackageStates,
        t \in {None} \cup {Some(x) : x \in ProjectType}, d \in Defaults}

InitThreshold == InitFrom(ThresholdInputs)

NextThreshold ==
    \/ MainStart
    \/ GetCoverageThreshold

SpecThreshold == InitThreshold /\ [][NextThreshold]_vars

----------------------------------------------------------------------------
(* SpecBreaking: detect_breaking_changes over name-status diffs *)

MaxDiffLines == 2

DiffLines ==
    {<<"A", "src/api.py">>, <<"M", "src/api.py">>, <<"M", "tests/test_api.py">>,
     <<"D", "src/api.py">>, <<"D", "lib/api.py">>, <<"D", ".github/ci.yml">>,
     <<"D", ".gitignore">>, <<"D", "tests/test_api.py">>, <<"D", "testing.md">>,
     <<"R100", "src/api.py", "lib/api.py">>, <<"R100", ".github/ci.yml", "src/api.py">>,
     <<"R100", "tests/test_api.py", "src/api.py">>}

RECURSIVE SeqsUpTo(_, _)
SeqsUpTo(S, n) ==
    IF n = 0 THEN {<<>>}
    ELSE LET shorter == SeqsUpTo(S, n - 1) IN
         shorter \cup {Append(s, x) : s \in shorter, x \in S}

BreakingInputs ==
    {Input(Dir({".git"}, PyprojectAbsent, PackageAbsent, "unreleased", {}),
           g, None, DefaultThreshold) :
        g \in {NoTags} \cup {Repo(TRUE, d) : d \in SeqsUpTo(DiffLines, MaxDiffLines)}}

InitBreaking == InitFrom(BreakingInputs)

NextBreaking ==
    \/ MainStart
    \/ GetCoverageThreshold
    \/ ValidateChangelog
    \/ DetectBreakingChanges

SpecBreaking == InitBreaking /\ [][NextBreaking]_vars

----------------------------------------------------------------------------
(* Properties *)

Checks == report.checks
CheckAt(i) == report.checks[i]
LastCheck == report.checks[Len(report.checks)]
Names == {report.checks[i].name : i \in 1..Len(report.checks)}
SomeFailed == \E i \in 1..Len(report.checks) : report.checks[i].result = FAILED

\* validate_project returned its report (to main).
Returned == pc = "returned" \/ (pc = "exited" /\ raised = "none" /\ fs.path_exists)

\* The run has got past the step at which pc was one of `before`, without an exception.
Past(before) == pc \notin before /\ raised = "none" /\ fs.path_exists

\* C1: report.passed is false exactly when some CheckResult is failed, whatever
\* the number of warning and skipped results (an empty list is passed), and
\* main exits with status 0 exactly when the returned report is passed.
C1_PassedIffNoFailed ==
    /\ passed(report) <=> ~SomeFailed
    /\ (Checks = <<>> => passed(report))
    /\ (pc = "exited" /\ Returned) =>
          /\ exit_status # None
          /\ (exit_status[1] = 0) <=> passed(report)

C1_Witness ==
    /\ pc = "exited" /\ Returned
    /\ exit_status = Some(1)
    /\ SomeFailed
    /\ \E i \in 1..Len(Checks) : CheckAt(i).result = WARNING
    /\ \E i \in 1..Len(Checks) : CheckAt(i).result = SKIPPED

\* C2: with no forced type, the project type is that of the first rule of the
\* cascade whose marker file exists, generic when none exists, and detection
\* never fails.
Cascade ==
    << <<".claude-plugin/plugin.json", "claude-plugin">>,
       <<"plugin.json", "claude-plugin">>,
       <<"pyproject.toml", "python">>,
       <<"setup.py", "python">>,
       <<"package.json", "nodejs">>,
       <<"go.mod", "go">>,
       <<"Cargo.toml", "rust">>,
       <<".git", "generic">> >>

Matching == {i \in 1..Len(Cascade) : Cascade[i][1] \in fs.markers}

C2_FirstMatchingRule ==
    /\ raised = "none"
    /\ (pc = "threshold" /\ forced = None) =>
          IF Matching = {}
          THEN report.project_type = "generic"
          ELSE \E i \in Matching :
                  /\ \A j \in Matching : i <= j
                  /\ report.project_type = Cascade[i][2]

C2_Witness ==
    /\ pc = "threshold"
    /\ {"plugin.json", "go.mod", "package.json", "setup.py"} \subseteq fs.markers
    /\ report.project_type = "claude-plugin"

\* C3 (as claimed): no fault of an individual check ends the run with an
\* exception; validate_project always returns a report.
C3_NoCheckAbortsRun == raised = "none"

\* C4 (as claimed): once a common check or the ecosystem pipeline has run, the
\* report holds at least one CheckResult of it.
Common == {"changelog", "breaking-changes", "ci-config"}

C4_EveryDimensionRecords ==
    /\ Past({"main", "threshold", "changelog"}) => "changelog" \in Names
    /\ Past({"main", "threshold", "changelog", "breaking"}) => "breaking-changes" \in Names
    /\ Past({"main", "threshold", "changelog", "breaking", "ci"}) => "ci-config" \in Names
    /\ Returned => Names \ Common # {}

\* The names under which the step issuing command cmd records its result.
StepNames(cmd) ==
    CASE cmd \in {"git describe", "git diff"} -> {"breaking-changes"}
      [] cmd \in {"pytest", "go test"} -> {"tests", "tests+coverage"}
      [] cmd \in {"npm test", "cargo test"} -> {"tests"}
      [] cmd \in {"ruff", "flake8"} -> {"lint (ruff)", "lint (flake8)", "lint"}
      [] cmd \in {"npm run lint", "npx eslint"} -> {"lint", "lint (eslint)"}
      [] cmd \in {"golangci-lint", "cargo clippy"} -> {"lint"}
      [] cmd = "mypy" -> {"typecheck"}
      [] cmd \in {"bandit", "npm audit", "cargo audit"} -> {"security"}
      [] cmd = "pip-audit" -> {"dependencies"}
      [] cmd = "go vet" -> {"vet"}
      [] cmd = "cargo fmt" -> {"format"}

\* C5 (as claimed): a command ending in a missing executable or a timeout
\* yields a non-zero exit code without raising, and the step that issued it
\* records a failed or warning CheckResult.
C5_FaultRecordsFailedOrWarning ==
    \A k \in 1..Len(last) :
        last[k].event \in {"timeout", "notfound"} =>
            /\ raised = "none"
            /\ last[k].code # 0
            /\ Checks # <<>>
            /\ LastCheck.name \in StepNames(last[Len(last)].cmd)
            /\ LastCheck.result \in {FAILED, WARNING}

\* C6 (as claimed): after the python or go test command has run, the test
\* check is failed if it exited non-zero, failed if it exited 0 with a parsed
\* coverage below the threshold, and passed otherwise.
C6_TestCheckOutcome ==
    (/\ pc \in {"python_lint", "go_lint"}
     /\ last # <<>>
     /\ last[1].event = "ran") =>
        LastCheck.result =
            IF last[1].code # 0 THEN FAILED
            ELSE IF LastCheck.coverage # None /\ LastCheck.coverage[1] < actual_threshold[1]
            THEN FAILED
            ELSE PASSED

\* C7: with a tag and a successful diff, breaking_changes holds one entry per
\* deleted or renamed line whose (old) path starts neither with "." nor with
\* "test", in diff order, and nothing else; a non-empty list comes with a
\* warning check and recommendation major, an empty one with a passed check.
Excluded(p) ==
    \/ Chars(p)[1] = "."
    \/ (Len(Chars(p)) >= 4 /\ SubSeq(Chars(p), 1, 4) = <<"t", "e", "s", "t">>)

Breaks(line) ==
    /\ Chars(line[1])[1] \in {"D", "R"}
    /\ ~Excluded(line[2])

EntryOf(line) ==
    IF Chars(line[1])[1] = "D" THEN Deleted(line[2]) ELSE Renamed(line[2], line[3])

DiffSucceeded ==
    /\ pc = "ci"
    /\ Len(last) = 2
    /\ last[2].code = 0

BreakingChecks == {i \in 1..Len(Checks) : CheckAt(i).name = "breaking-changes"}

C8_NoTagSkipped ==
    /\ (pc = "ci" /\ last[1].code # 0) =>
          /\ Len(last) = 1
          /\ last[1].cmd = "git describe"
          /\ Len(Checks) = 2
          /\ LastCheck = CheckResult("breaking-changes", SKIPPED, None)
          /\ report.breaking_changes = <<>>
          /\ report.semver_recommendation = "patch"
    /\ (Past({"main", "threshold", "changelog", "breaking"}) /\ ~git.tag) =>
          /\ Cardinality(BreakingChecks) = 1
          /\ \A i \in BreakingChecks : CheckAt(i).result = SKIPPED
          /\ report.breaking_changes = <<>>
    /\ (Returned /\ ~git.tag) => report.semver_recommendation = "patch"

C8_Witness ==
    /\ pc = "returned"
    /\ ~git.tag
    /\ CheckAt(2) = CheckResult("breaking-changes", SKIPPED, None)
    /\ report.semver_recommendation = "patch"

\* C9: the returned report recommends major if a breaking change was recorded,
\* otherwise minor if a passed check's name contains "feat", otherwise patch.
FeaturePassed ==
    \E i \in 1..Len(Checks) :
        /\ CheckAt(i).result = PASSED
        /\ contains(lower(Chars(CheckAt(i).name)), <<"f", "e", "a", "t">>)

C9_SemverRecommendation ==
    Returned =>
        /\ report.semver_recommendation \in {"major", "minor", "patch"}
        /\ report.semver_recommendation =
              CASE Len(report.breaking_changes) > 0 -> "major"
                [] Len(report.breaking_changes) = 0 /\ FeaturePassed -> "minor"
                [] OTHER -> "patch"

C9_Witness ==
    /\ Returned
    /\ report.semver_recommendation = "major"
    /\ report.breaking_changes # <<>>
    /\ passed(report)

\* C10 (as claimed): the resolved threshold is always a positive number.
C10_AlwaysPositive ==
    pc = "changelog" => actual_threshold[1] > 0

\* C10 (amended): get_coverage_threshold never raises; it returns the
\* configured fail_under for python when one is found, the configured jest
\* lines threshold for nodejs when present and numeric, and the supplied
\* default in every other case.
Configured ==
    IF /\ report.project_type = "python"
       /\ "pyproject.toml" \in fs.markers
       /\ fs.pyproject.kind = "text"
       /\ fs.pyproject.fail_under # None
    THEN fs.pyproject.fail_under
    ELSE IF /\ report.project_type = "nodejs"
            /\ "package.json" \in fs.markers
            /\ fs.package.kind = "object"
            /\ fs.package.lines # None
            /\ fs.package.lines[1].t \in {"number", "numstr"}
    THEN Some(fs.package.lines[1].v)
    ELSE None

C10_ThresholdResolution ==
    /\ raised = "none"
    /\ pc = "changelog" =>
          /\ actual_threshold # None
          /\ actual_threshold = (IF Configured # None THEN Configured ELSE Some(default))
          /\ (actual_threshold[1] > 0) <=>
                (IF Configured # None THEN Configured[1] > 0 ELSE default > 0)

C10_Witness ==
    /\ pc = "changelog"
    /\ report.project_type = "python"
    /\ fs.pyproject.fail_under = Some(0)
    /\ actual_threshold = Some(0)

\* C11: for a rust project the pipeline appends exactly four results, in the
\* order tests, lint, security, format; tests and format are failed exactly
\* when their command returns non-zero, lint and security are passed or
\* warning; so the report is passed exactly when the tests and the format
\* results are passed, and main exits non-zero otherwise.
Ecosystem == SelectSeq(Checks, LAMBDA c : c.name \notin Common)

\* The step just completed ran command cmd and recorded its result under name,
\* bad when the command returned non-zero and passed when it returned 0.
Recorded(cmd, name, bad) ==
    /\ Len(last) = 1
    /\ last[1].cmd = cmd
    /\ Checks # <<>>
    /\ contains(Chars(LastCheck.name), Chars(name))
    /\ LastCheck.result = (IF last[1].code = 0 THEN PASSED ELSE bad)

C11_RustPipeline ==
    /\ (pc = "rust_clippy" /\ raised = "none") => Recorded("cargo test", "tests", FAILED)
    /\ (pc = "rust_audit" /\ raised = "none") => Recorded("cargo clippy", "lint", WARNING)
    /\ (pc = "rust_format" /\ raised = "none") => Recorded("cargo audit", "security", WARNING)
    /\ (pc = "semver" /\ report.project_type = "rust") =>
          Recorded("cargo fmt", "format", FAILED)
    /\ (Returned /\ report.project_type = "rust") =>
          /\ Len(Ecosystem) = 4
          /\ SubSeq(Checks, Len(Checks) - 3, Len(Checks)) = Ecosystem
          /\ Ecosystem[1].name = "tests"
          /\ Ecosystem[2].name \in {"lint (clippy)", "lint"}
          /\ Ecosystem[3].name \in {"security (cargo audit)", "security"}
          /\ Ecosystem[4].name = "format"
          /\ Ecosystem[1].result \in {PASSED, FAILED}
          /\ Ecosystem[2].result \in {PASSED, WARNING}
          /\ Ecosystem[3].result \in {PASSED, WARNING}
          /\ Ecosystem[4].result \in {PASSED, FAILED}
          /\ passed(report) <=> (Ecosystem[1].result = PASSED /\ Ecosystem[4].result = PASSED)
          /\ (pc = "exited") => ((exit_status[1] # 0) <=> ~passed(report))

C11_Witness ==
    /\ pc = "exited" /\ Returned
    /\ report.project_type = "rust"
    /\ Len(Ecosystem) = 4
    /\ Ecosystem[1] = CheckResult("tests", PASSED, None)
    /\ Ecosystem[4] = CheckResult("format", FAILED, None)
    /\ ~passed(report)
    /\ exit_status = Some(1)

\* C12 (as claimed): without a manifest the nodejs pipeline records exactly one
\* failed result and runs no command; with one, tests and lint follow the
\* declared script's exit code, tests are skipped without a test script, an
\* undeclared lint is skipped only when the default linter could not run, and
\* the audit is passed or warning.
C12_NodePipeline ==
    /\ (pc = "semver" /\ report.project_type = "nodejs" /\ ~exists(fs, "package.json")) =>
          /\ Ecosystem = <<CheckResult("package.json", FAILED, None)>>
          /\ last = <<>>
    /\ pc = "nodejs_lint" =>
          IF "test" \in fs.package.scripts
          THEN Recorded("npm test", "tests", FAILED)
          ELSE last = <<>> /\ LastCheck = CheckResult("tests", SKIPPED, None)
    /\ pc = "nodejs_audit" =>
          IF "lint" \in fs.package.scripts
          THEN Recorded("npm run lint", "lint", FAILED)
          ELSE /\ Len(last) = 1
               /\ last[1].cmd = "npx eslint"
               /\ contains(Chars(LastCheck.name), Chars("lint"))
               /\ (last[1].code = 0 => LastCheck.result = PASSED)
               /\ (LastCheck.result = SKIPPED => last[1].event # "ran")
    /\ (pc = "semver" /\ report.project_type = "nodejs" /\ exists(fs, "package.json")) =>
          Recorded("npm audit", "security", WARNING)

\* C13: for project type generic the ecosystem step appends exactly one
\* warning result and runs no command, no check is failed, and a returned
\* report is passed (exit status 0); with an [Unreleased] changelog, no tag and
\* no CI configuration the report is changelog passed, breaking-changes
\* skipped, ci-config warning, project-type warning, recommendation patch.
C13_GenericPipeline ==
    report.project_type = "generic" =>
        /\ ~SomeFailed
        /\ passed(report)
        /\ pc = "semver" =>
              /\ last = <<>>
              /\ Ecosystem = <<CheckResult("project-type", WARNING, None)>>
        /\ Returned =>
              /\ Len(Ecosystem) = 1
              /\ (pc = "exited" => exit_status = Some(0))
        /\ (Returned /\ fs.changelog = "unreleased" /\ ~git.tag /\ fs.ci = {}) =>
              /\ Checks = <<CheckResult("changelog", PASSED, None),
                            CheckResult("breaking-changes", SKIPPED, None),
                            CheckResult("ci-config", WARNING, None),
                            CheckResult("project-type", WARNING, None)>>
              /\ report.semver_recommendation = "patch"

C13_Witness ==
    /\ pc = "exited" /\ Returned
    /\ report.project_type = "generic"
    /\ fs.markers = {".git"}
    /\ fs.changelog = "unreleased" /\ ~git.tag /\ fs.ci = {}
    /\ Len(Checks) = 4
    /\ LastCheck = CheckResult("project-type", WARNING, None)
    /\ exit_status = Some(0)

\* C14: in every returned report the checks are in execution order: one
\* changelog result first, then at most one breaking-changes result, then one
\* ci-config result, then the results of the ecosystem pipeline in the order of
\* its steps; and every step leaves the checks already in the report in place,
\* only appending to them.
PipelineSteps(project_type) ==
    CASE project_type = "claude-plugin" -> <<"plugin.json", "agents", "skills", "commands">>
      [] project_type = "python" ->
            <<"tests", "lint", "typecheck", "security", "dependencies">>
      [] project_type = "nodejs" -> <<"package.json", "tests", "lint", "security">>
      [] project_type = "go" -> <<"tests", "lint", "vet">>
      [] project_type = "rust" -> <<"tests", "lint", "security", "format">>
      [] OTHER -> <<"project-type">>

\* The steps of the pipeline a check named name can come from.
StepsOf(name) ==
    LET steps == PipelineSteps(report.project_type) IN
    {i \in 1..Len(steps) : startswith(Chars(name), Chars(steps[i]))}

InExecutionOrder ==
    LET n == Len(Checks)
        k == n - Len(Ecosystem)
    IN
    /\ k \in {2, 3}
    /\ Checks[1].name = "changelog"
    /\ (k = 3 => Checks[2].name = "breaking-changes")
    /\ Checks[k].name = "ci-config"
    /\ SubSeq(Checks, k + 1, n) = Ecosystem
    /\ Ecosystem # <<>>
    /\ \A i \in 1..Len(Ecosystem) : Cardinality(StepsOf(Ecosystem[i].name)) = 1
    /\ \A i, j \in 1..Len(Ecosystem) :
          i < j => \A a \in StepsOf(Ecosystem[i].name), b \in StepsOf(Ecosystem[j].name) : a < b

OnlyAppended ==
    /\ Len(report'.checks) >= Len(report.checks)
    /\ SubSeq(report'.checks, 1, Len(report.checks)) = report.checks

====
